---- MODULE Spec2Model ----
(***************************************************************************)
(* Model of the subscription manager of src/src/lib.rs and of the ordered  *)
(* delta list of src/src/skiplist.rs.                                      *)
(*                                                                         *)
(* The state is the SubscriptionManager struct (collector, price_per_block,*)
(* current_block, changes, subscriptions).  Every public method is one     *)
(* action; a call that panics (failed assert!, division by zero) leaves    *)
(* the struct as it was and is recorded in lastOp.                         *)
(***************************************************************************)
EXTENDS Integers, Sequences, FiniteSets, TLC

\* ---------------------------------------------------------------- bounds
\* Largest block number set_current_block is called with.
MaxBlock == 3
\* Largest number of accepted top_off calls in one run of Spec.
MaxSubs == 2
\* Largest number of accepted top_off calls in one run of SpecLedger.
MaxLedger == 3
\* Prices passed to set_price_per_block range over -MaxDiscount..MaxPrice.
MaxPrice == 2
MaxDiscount == 1
\* Amounts passed to top_off range over -MaxDebit..MaxAmount.
MaxAmount == 3
MaxDebit == 2

\* account(1), account(2) of the tests
Accounts == {1, 2}
Prices == (0 - MaxDiscount)..MaxPrice
Amounts == (0 - MaxDebit)..MaxAmount
Blocks == 0..MaxBlock

VARIABLES
    collector,       \* Collector {last_collected_block, current_fee, balance, service_balance}
    price_per_block, \* SubscriptionManager::price_per_block
    current_block,   \* SubscriptionManager::current_block
    changes,         \* SkipList {keys, values}
    subscriptions,   \* Map<Account, Vec<Subscription>>: a function on the accounts that have an entry
    lastOp,          \* the last call made on the manager and how it ended
    paid,            \* history: per account, the amounts of its top_off calls that got past the num_blocks check
    uncollected      \* history: collector and changes of the same run of calls without its collect calls

vars == <<collector, price_per_block, current_block, changes, subscriptions,
          lastOp, paid, uncollected>>

\* The fields of the manager (everything but the history variables).
manager == <<collector, price_per_block, current_block, changes, subscriptions>>

\* ---------------------------------------------------------------- helpers
Abs(x) == IF x < 0 THEN 0 - x ELSE x

Max(a, b) == IF a >= b THEN a ELSE b

\* Faulty variant: the quotient is rounded away from zero.
RustDiv_Ceil(a, b) ==
    LET q == Abs(a) \div Abs(b)
        up == IF Abs(a) % Abs(b) = 0 THEN q ELSE q + 1
    IN  IF (a < 0) = (b < 0) THEN up ELSE 0 - up

\* Rust's signed integer division: the quotient is truncated towards zero.
RustDiv(a, b) ==
    IF (a >= 0) = (b > 0) THEN Abs(a) \div Abs(b) ELSE 0 - (Abs(a) \div Abs(b))

InsertAt(s, i, x) == SubSeq(s, 1, i - 1) \o <<x>> \o SubSeq(s, i, Len(s))

\* ---------------------------------------------------------------- skiplist.rs
SkipList_new == [keys |-> <<>>, values |-> <<>>]

\* Faulty variant: the key is never found and the insertion point is the end.
binary_search_Append(keys, k) == [ok |-> FALSE, i |-> Len(keys) + 1]

\* slice::binary_search on the sorted keys: Ok(i) when keys[i] = k, otherwise
\* Err(i) with i the position that keeps the keys sorted (indices from 1).
binary_search(keys, k) ==
    IF \E i \in 1..Len(keys) : keys[i] = k
    THEN [ok |-> TRUE, i |-> CHOOSE i \in 1..Len(keys) : keys[i] = k]
    ELSE [ok |-> FALSE, i |-> 1 + Cardinality({j \in 1..Len(keys) : keys[j] < k})]

\* get_or_insert_mut(k): the list after the call, and the index the returned
\* reference points at.
get_or_insert_mut(sl, k) ==
    LET r == binary_search(sl.keys, k)
    IN  IF r.ok
        THEN [list |-> sl, i |-> r.i]
        ELSE [list |-> [keys |-> InsertAt(sl.keys, r.i, k),
                        values |-> InsertAt(sl.values, r.i, 0)],
              i |-> r.i]

\* *changes.get_or_insert_mut(k) += d
add_at(sl, k, d) ==
    LET g == get_or_insert_mut(sl, k)
    IN  [keys |-> g.list.keys,
         values |-> [g.list.values EXCEPT ![g.i] = @ + d]]

\* Faulty variant: the processed entries stay in the list.
truncate_front_Keep(sl, index) == sl

truncate_front(sl, index) ==
    [keys |-> SubSeq(sl.keys, index + 1, Len(sl.keys)),
     values |-> SubSeq(sl.values, index + 1, Len(sl.values))]

\* ---------------------------------------------------------------- Collector
Collector_new ==
    [last_collected_block |-> 0, current_fee |-> 0, balance |-> 0, service_balance |-> 0]

\* Faulty variant: the fee leaves the balance but is not credited to the service.
collect_one_NoCredit(c, block) ==
    LET num_blocks == block - c.last_collected_block
        fee == c.current_fee * num_blocks
    IN  [c EXCEPT !.balance = @ - fee, !.last_collected_block = block]

\* Faulty variant: last_collected_block is not moved to the collected block.
collect_one_KeepBlock(c, block) ==
    LET num_blocks == block - c.last_collected_block
        fee == c.current_fee * num_blocks
    IN  [c EXCEPT !.balance = @ - fee, !.service_balance = @ + fee]

\* Faulty variant: the blocks are counted from the collected block back to
\* last_collected_block.
collect_one_Backwards(c, block) ==
    LET num_blocks == c.last_collected_block - block
        fee == c.current_fee * num_blocks
    IN  [c EXCEPT !.balance = @ - fee,
                  !.service_balance = @ + fee,
                  !.last_collected_block = block]

collect_one(c, block) ==
    LET num_blocks == block - c.last_collected_block
        fee == c.current_fee * num_blocks
    IN  [c EXCEPT !.balance = @ - fee,
                  !.service_balance = @ + fee,
                  !.last_collected_block = block]

\* Faulty variant: the delta is added to current_fee before the blocks up to the entry
\* are collected.
RECURSIVE collect_loop_DeltaFirst(_, _, _, _, _)
collect_loop_DeltaFirst(c, sl, i, processed, cur) ==
    IF i > Len(sl.keys) \/ sl.keys[i] > cur
    THEN [collector |-> c, changes_processed |-> processed]
    ELSE collect_loop_DeltaFirst(
            collect_one([c EXCEPT !.current_fee = @ + sl.values[i]], sl.keys[i]),
            sl, i + 1, processed + 1, cur)

\* The for loop of collect, from entry i on: stops at the end of the list or at
\* the first entry after cur; gives the collector and changes_processed.
RECURSIVE collect_loop(_, _, _, _, _)
collect_loop(c, sl, i, processed, cur) ==
    IF i > Len(sl.keys) \/ sl.keys[i] > cur
    THEN [collector |-> c, changes_processed |-> processed]
    ELSE collect_loop([collect_one(c, sl.keys[i]) EXCEPT !.current_fee = @ + sl.values[i]],
                      sl, i + 1, processed + 1, cur)

\* The body of SubscriptionManager::collect on a collector and a list.
collect_body(c, sl, cur) ==
    LET swept == collect_loop(c, sl, 1, 0, cur)
    IN  [collector |-> collect_one(swept.collector, cur),
         changes |-> truncate_front(sl, swept.changes_processed)]

\* ---------------------------------------------------------------- SubscriptionManager
NumSubs == LET RECURSIVE count(_)
               count(S) == IF S = {} THEN 0
                           ELSE LET a == CHOOSE a \in S : TRUE
                                IN  Len(subscriptions[a]) + count(S \ {a})
           IN  count(DOMAIN subscriptions)

Init ==
    /\ collector = Collector_new
    /\ price_per_block = 0
    /\ current_block = 0
    /\ changes = SkipList_new
    /\ subscriptions = <<>>
    /\ lastOp = [op |-> "new", arg |-> 0, result |-> "ok", again |-> FALSE]
    /\ paid = <<>>
    /\ uncollected = [collector |-> Collector_new, changes |-> SkipList_new]

\* Faulty variant: the assert is missing.
set_current_block_NoAssert(block) ==
    /\ current_block' = block
    /\ lastOp' = [op |-> "set_current_block", arg |-> block,
                  result |-> "ok", again |-> FALSE]
    /\ UNCHANGED <<collector, price_per_block, changes, subscriptions,
                   paid, uncollected>>

set_current_block(block) ==
    IF block > current_block
    THEN /\ current_block' = block
         /\ lastOp' = [op |-> "set_current_block", arg |-> block,
                       result |-> "ok", again |-> FALSE]
         /\ UNCHANGED <<collector, price_per_block, changes, subscriptions,
                        paid, uncollected>>
    ELSE /\ lastOp' = [op |-> "set_current_block", arg |-> block,
                       result |-> "panic", again |-> FALSE]
         /\ UNCHANGED <<manager, paid, uncollected>>

\* Faulty variant: the new price is applied to the rate being collected.
set_price_per_block_Retro(price) ==
    /\ price_per_block' = price
    /\ collector' = [collector EXCEPT
                        !.current_fee = IF @ = 0 THEN 0 ELSE @ + (price - price_per_block)]
    /\ lastOp' = [op |-> "set_price_per_block", arg |-> price,
                  result |-> "ok", again |-> FALSE]
    /\ UNCHANGED <<current_block, changes, subscriptions, paid, uncollected>>

set_price_per_block(price) ==
    /\ price_per_block' = price
    /\ lastOp' = [op |-> "set_price_per_block", arg |-> price,
                  result |-> "ok", again |-> FALSE]
    /\ UNCHANGED <<collector, current_block, changes, subscriptions,
                   paid, uncollected>>

\* Faulty variant: the delta at end_block is not scheduled.
top_off_funds_NoExpiry(c, sl, amount, start_block, end_block) ==
    [collector |-> [c EXCEPT !.balance = @ + amount],
     changes |-> add_at(sl, start_block, price_per_block)]

\* The part of top_off after the num_blocks check, on one copy of the
\* collector and the list: the balance, and the two deltas.
top_off_funds(c, sl, amount, start_block, end_block) ==
    [collector |-> [c EXCEPT !.balance = @ + amount],
     changes |-> add_at(add_at(sl, start_block, price_per_block),
                        end_block, 0 - price_per_block)]

top_off_start(subs) ==
    Max(IF Len(subs) = 0 THEN 0 ELSE subs[Len(subs)].end_block, current_block + 1)

\* Faulty variant: the account's entry is created before the num_blocks check.
top_off_return_Entry(account) ==
    /\ subscriptions' =
          [a \in (DOMAIN subscriptions) \cup {account} |->
              IF a \in DOMAIN subscriptions THEN subscriptions[a] ELSE <<>>]
    /\ UNCHANGED <<collector, price_per_block, current_block, changes,
                   paid, uncollected>>

\* The early return of top_off when num_blocks = 0: nothing has been written.
top_off_return(account) ==
    UNCHANGED <<manager, paid, uncollected>>

\* Faulty variant: the amount is added to the balance before the division.
top_off_divide_by_zero_Funded(amount) ==
    /\ lastOp' = [op |-> "top_off", arg |-> amount,
                  result |-> "panic", again |-> FALSE]
    /\ collector' = [collector EXCEPT !.balance = @ + amount]
    /\ UNCHANGED <<price_per_block, current_block, changes, subscriptions,
                   paid, uncollected>>

\* amount / price_per_block with price_per_block = 0, the first statement of
\* top_off: panics (attempt to divide by zero), nothing has been written.
top_off_divide_by_zero(amount) ==
    /\ lastOp' = [op |-> "top_off", arg |-> amount,
                  result |-> "panic", again |-> FALSE]
    /\ UNCHANGED <<manager, paid, uncollected>>

top_off(account, amount) ==
    IF price_per_block = 0
    THEN top_off_divide_by_zero(amount)
    ELSE LET num_blocks == RustDiv(amount, price_per_block)
             subs == IF account \in DOMAIN subscriptions
                     THEN subscriptions[account] ELSE <<>>
             start_block == top_off_start(subs)
             end_block == start_block + num_blocks
             sub == [start_block |-> start_block, end_block |-> end_block,
                     price_per_block |-> price_per_block]
             funded == top_off_funds(collector, changes, amount, start_block, end_block)
             shadow == top_off_funds(uncollected.collector, uncollected.changes,
                                     amount, start_block, end_block)
         IN  IF num_blocks = 0
             THEN /\ lastOp' = [op |-> "top_off", arg |-> amount,
                                result |-> "rejected", again |-> FALSE]
                  /\ top_off_return(account)
             ELSE /\ collector' = funded.collector
                  /\ changes' = funded.changes
                  /\ subscriptions' =
                        [a \in (DOMAIN subscriptions) \cup {account} |->
                            IF a = account THEN Append(subs, sub) ELSE subscriptions[a]]
                  /\ paid' = [a \in (DOMAIN paid) \cup {account} |->
                                IF a = account
                                THEN Append(IF a \in DOMAIN paid THEN paid[a] ELSE <<>>, amount)
                                ELSE paid[a]]
                  /\ uncollected' = shadow
                  /\ lastOp' = [op |-> "top_off", arg |-> amount,
                                result |-> "ok", again |-> FALSE]
                  /\ UNCHANGED <<price_per_block, current_block>>

is_active(account) ==
    IF account \notin DOMAIN subscriptions
    THEN FALSE
    ELSE LET subs == subscriptions[account]
             started == {i \in 1..Len(subs) : subs[i].start_block <= current_block}
         IN  IF started = {}
             THEN FALSE
             ELSE LET i == CHOOSE i \in started : \A j \in started : j <= i
                  IN  subs[i].end_block > current_block

collect ==
    LET done == collect_body(collector, changes, current_block)
    IN  /\ collector' = done.collector
        /\ changes' = done.changes
        /\ lastOp' = [op |-> "collect", arg |-> 0, result |-> "ok",
                      again |-> (lastOp.op = "collect")]
        /\ UNCHANGED <<price_per_block, current_block, subscriptions,
                       paid, uncollected>>

\* top_off(account, amount) gets past the num_blocks check.
Accepted(amount) ==
    price_per_block /= 0 /\ RustDiv(amount, price_per_block) /= 0

\* One call on the manager: a top_off by one of accounts, a price among prices,
\* at most cap purchases in a run.
Call(accounts, prices, cap) ==
    \/ \E block \in Blocks : set_current_block(block)
    \/ \E price \in prices : set_price_per_block(price)
    \/ \E account \in accounts, amount \in Amounts :
          /\ Accepted(amount) => NumSubs < cap
          /\ top_off(account, amount)
    \/ collect

Next == Call(Accounts, Prices, MaxSubs)

Spec == Init /\ [][Next]_vars

\* Runs of a single account buying at the unit price, with one more purchase.
NextLedger == Call({1}, {0, 1}, MaxLedger)

SpecLedger == Init /\ [][NextLedger]_vars

\* ---------------------------------------------------------------- properties
RECURSIVE SumF(_)
SumF(f) ==
    IF DOMAIN f = {} THEN 0
    ELSE LET x == CHOOSE x \in DOMAIN f : TRUE
         IN  f[x] + SumF([y \in (DOMAIN f) \ {x} |-> f[y]])

Min(a, b) == IF a <= b THEN a ELSE b

\* The recorded subscriptions, as (account, index) pairs.
Recorded == UNION {{<<a, i>> : i \in 1..Len(subscriptions[a])} : a \in DOMAIN subscriptions}

SubOf(r) == subscriptions[r[1]][r[2]]
PaidOf(r) == paid[r[1]][r[2]]

\* Sum of the amounts of all accepted top_off calls.
TotalPaid == SumF([r \in Recorded |-> PaidOf(r)])

Funds == collector.balance + collector.service_balance

\* C1: balance + service_balance is the sum of the amounts of the accepted
\* top_off calls in every reachable state, and a step changes it by the amount
\* of the call when it is an accepted top_off and not at all otherwise
\* (collect, set_current_block, set_price_per_block, a rejected or failed top_off).
C1_Conservation ==
    /\ [](Funds = TotalPaid)
    /\ [][Funds' - Funds =
            IF lastOp'.op = "top_off" /\ lastOp'.result = "ok" THEN lastOp'.arg ELSE 0]_vars

\* An accepted top_off has been followed by a collect that moved a fee.
C1_Witness ==
    /\ lastOp.op = "collect"
    /\ collector.service_balance > 0
    /\ collector.balance > 0

\* Fee of subscription s for the blocks of [start_block, end_block) before block t.
FeeUntil(s, t) ==
    s.price_per_block * Max(0, Min(s.end_block, t) - s.start_block)

\* C2: right after collect() at current_block T, service_balance is the sum
\* over all recorded subscriptions of price_per_block * max(0, min(end, T) - start).
C2_SettledFee ==
    lastOp.op = "collect" =>
        collector.service_balance =
            SumF([r \in Recorded |-> FeeUntil(SubOf(r), current_block)])

\* Every purchase was made at a price >= 1 with amount >= price.
PaidPurchases ==
    \A r \in Recorded : SubOf(r).price_per_block >= 1 /\ PaidOf(r) >= SubOf(r).price_per_block

\* C3: with every purchase made at price >= 1 and amount >= price, once every
\* subscription has ended and been collected (last_collected_block at or past
\* its end) service_balance is the sum of floor(amount / price) * price, and
\* stays so under further set_current_block and collect calls.
C3_FullyCollected ==
    (/\ Recorded /= {}
     /\ PaidPurchases
     /\ \A r \in Recorded : SubOf(r).end_block <= collector.last_collected_block)
    => collector.service_balance =
          SumF([r \in Recorded |->
                  (PaidOf(r) \div SubOf(r).price_per_block) * SubOf(r).price_per_block])

\* Two subscriptions at different prices, one with a remainder, have ended and
\* been collected, and a later collect has run.
C3_Witness ==
    /\ PaidPurchases
    /\ Cardinality(Recorded) = 2
    /\ \E r, q \in Recorded :
          /\ SubOf(r).price_per_block /= SubOf(q).price_per_block
          /\ PaidOf(r) % SubOf(r).price_per_block /= 0
    /\ \A r \in Recorded : SubOf(r).end_block < collector.last_collected_block
    /\ lastOp.op = "collect" /\ lastOp.again

\* C4: a final collect() gives the same collector and the same remaining list
\* in the run as made and in the same run without its earlier collect calls.
C4_Granularity ==
    collect_body(collector, changes, current_block)
        = collect_body(uncollected.collector, uncollected.changes, current_block)

\* A collect took a fee in the middle of a subscription, time has moved on and
\* the final collect is still to come.
C4_Witness ==
    /\ lastOp.op = "set_current_block" /\ lastOp.result = "ok"
    /\ collector.service_balance > 0
    /\ collector.current_fee > 0
    /\ 0 < collector.last_collected_block
    /\ collector.last_collected_block < current_block
    /\ Len(changes.keys) > 0
    /\ changes.keys[1] <= current_block

\* Some interval of the account's ledger contains current_block.
Covered(account) ==
    /\ account \in DOMAIN subscriptions
    /\ \E i \in 1..Len(subscriptions[account]) :
          /\ subscriptions[account][i].start_block <= current_block
          /\ current_block < subscriptions[account][i].end_block

\* C5: is_active(account) is true exactly when the account's ledger has an
\* interval with start_block <= current_block < end_block.
C5_ActiveIffCovered == \A account \in Accounts : is_active(account) <=> Covered(account)

\* C6: each account's intervals are ordered by non-decreasing start_block and
\* consecutive intervals do not overlap (start[i+1] >= end[i]).
C6_LedgerOrdered ==
    \A a \in DOMAIN subscriptions :
        \A i \in 1..(Len(subscriptions[a]) - 1) :
            /\ subscriptions[a][i].start_block <= subscriptions[a][i + 1].start_block
            /\ subscriptions[a][i + 1].start_block >= subscriptions[a][i].end_block

\* C7: set_current_block(block) with block <= current_block fails and changes
\* nothing of the manager; with block > current_block it sets current_block to
\* block and changes nothing else.  current_block never decreases and is never
\* below 0.
C7_AdvanceTime ==
    /\ [](current_block >= 0)
    /\ [][/\ current_block' >= current_block
          /\ lastOp'.op = "set_current_block" =>
                IF lastOp'.arg <= current_block
                THEN lastOp'.result = "panic" /\ UNCHANGED manager
                ELSE /\ lastOp'.result = "ok"
                     /\ current_block' = lastOp'.arg
                     /\ current_block' > current_block
                     /\ UNCHANGED <<collector, price_per_block, changes, subscriptions>>]_vars

\* Time has advanced past a purchase and a later call with a block that is not
\* greater than current_block has failed.
C7_Witness ==
    /\ lastOp.op = "set_current_block" /\ lastOp.result = "panic"
    /\ 0 < lastOp.arg /\ lastOp.arg <= current_block
    /\ Recorded /= {}
    /\ collector.last_collected_block > 0

\* C8: a top_off whose num_blocks = amount / price_per_block is 0 is rejected
\* and changes nothing: not the balance, not the ledger (no entry is created
\* for the account, not even an empty one), not the list of changes.
C8_ZeroUnitsRejected ==
    [][(/\ lastOp'.op = "top_off"
        /\ price_per_block /= 0
        /\ RustDiv(lastOp'.arg, price_per_block) = 0)
       => (lastOp'.result = "rejected" /\ UNCHANGED <<manager, paid>>)]_vars

\* A top_off of a positive amount below the price was rejected while the
\* account had no entry in the ledger.
C8_Witness ==
    /\ lastOp.op = "top_off" /\ lastOp.result = "rejected"
    /\ lastOp.arg > 0
    /\ DOMAIN subscriptions /= Accounts
    /\ Recorded /= {}

\* C9: at a price >= 1 only top_off calls with amount >= price are accepted:
\* every recorded subscription bought at a price >= 1 was paid with an amount
\* >= price (a positive amount) and covers at least one block.
C9_OnlyPaidPurchases ==
    \A r \in Recorded :
        SubOf(r).price_per_block >= 1 =>
            /\ PaidOf(r) >= SubOf(r).price_per_block
            /\ SubOf(r).end_block > SubOf(r).start_block

\* Every recorded interval has a positive length (no purchase of a negative
\* number of blocks has been accepted).
PositiveLengths == \A r \in Recorded : SubOf(r).end_block > SubOf(r).start_block

\* The statements of C2, C5 and C6 hold in the states whose ledger has only
\* intervals of positive length: they fail through the purchases of C9 alone.
SettledFeeOfPositiveLengths == PositiveLengths => C2_SettledFee
ActiveIffCoveredOfPositiveLengths == PositiveLengths => C5_ActiveIffCovered
LedgerOrderedOfPositiveLengths == PositiveLengths => C6_LedgerOrdered

\* C10: a collect() that directly follows a collect() changes nothing.
C10_CollectIdempotent ==
    [][(lastOp.op = "collect" /\ lastOp'.op = "collect") => UNCHANGED manager]_vars

\* collect() ran twice in a row after fees had accrued, with changes still to come.
C10_Witness ==
    /\ lastOp.op = "collect" /\ lastOp.again
    /\ collector.service_balance > 0
    /\ collector.current_fee > 0
    /\ Len(changes.keys) > 0

\* Sum of the deltas of the entries of list sl at or before block t.
DeltasUntil(sl, t) ==
    SumF([i \in {j \in 1..Len(sl.keys) : sl.keys[j] <= t} |-> sl.values[i]])

\* C11: right after collect() last_collected_block = current_block and every
\* remaining entry is after current_block; in every reachable state every
\* entry of the list is after last_collected_block.
C11_EntriesAfterSettled ==
    /\ lastOp.op = "collect" =>
          /\ collector.last_collected_block = current_block
          /\ \A i \in 1..Len(changes.keys) : changes.keys[i] > current_block
    /\ \A i \in 1..Len(changes.keys) : changes.keys[i] > collector.last_collected_block

EntriesAfterSettledOfPositiveLengths == PositiveLengths => C11_EntriesAfterSettled

\* collect() drops exactly the entries at or before current_block, whatever
\* the ledger holds.
CollectDropsDueEntries ==
    [][lastOp'.op = "collect" =>
          /\ collector'.last_collected_block = current_block
          /\ \A i \in 1..Len(changes'.keys) : changes'.keys[i] > current_block
          /\ \E n \in 0..Len(changes.keys) :
                /\ changes' = truncate_front(changes, n)
                /\ \A i \in 1..n : changes.keys[i] <= current_block]_vars

\* C12: current_fee is the sum of all deltas ever scheduled at or before
\* last_collected_block, which is the sum of the prices of the subscriptions
\* with start_block <= last_collected_block < end_block.
C12_RateIsFoldedDeltas ==
    /\ collector.current_fee =
          DeltasUntil(uncollected.changes, collector.last_collected_block)
    /\ collector.current_fee =
          SumF([r \in {q \in Recorded :
                          /\ SubOf(q).start_block <= collector.last_collected_block
                          /\ collector.last_collected_block < SubOf(q).end_block}
                  |-> SubOf(r).price_per_block])

RateIsFoldedDeltasOfPositiveLengths == PositiveLengths => C12_RateIsFoldedDeltas

\* C13: current_fee plus the deltas still in the list is zero; so current_fee
\* is 0 whenever the list is empty.
C13_DeltasSumToZero ==
    /\ collector.current_fee
          + SumF([i \in 1..Len(changes.values) |-> changes.values[i]]) = 0
    /\ Len(changes.keys) = 0 => collector.current_fee = 0

\* Two subscriptions have been folded completely by a collect that took fees.
C13_Witness ==
    /\ lastOp.op = "collect"
    /\ Cardinality(Recorded) = 2
    /\ Len(changes.keys) = 0
    /\ collector.service_balance > 0

StrictlyIncreasing(keys) == \A i \in 1..(Len(keys) - 1) : keys[i] < keys[i + 1]

\* The deltas scheduled at block k by the recorded subscriptions.
ScheduledAt(k) ==
    SumF([r \in {q \in Recorded : SubOf(q).start_block = k} |-> SubOf(r).price_per_block])
    - SumF([r \in {q \in Recorded : SubOf(q).end_block = k} |-> SubOf(r).price_per_block])

\* C14: the keys of the list are strictly increasing (one entry per block),
\* with one value per key, and the entry of a block holds the sum of the
\* deltas scheduled at it (in the list of the run without collects, which
\* keeps every entry).
C14_OneEntryPerBlock ==
    /\ StrictlyIncreasing(changes.keys)
    /\ Len(changes.values) = Len(changes.keys)
    /\ StrictlyIncreasing(uncollected.changes.keys)
    /\ Len(uncollected.changes.values) = Len(uncollected.changes.keys)
    /\ \A i \in 1..Len(uncollected.changes.keys) :
          uncollected.changes.values[i] = ScheduledAt(uncollected.changes.keys[i])
    /\ \A r \in Recorded :
          \E i, j \in 1..Len(uncollected.changes.keys) :
              /\ uncollected.changes.keys[i] = SubOf(r).start_block
              /\ uncollected.changes.keys[j] = SubOf(r).end_block

\* Two subscriptions start at the same block (one merged entry of both
\* prices) and the end of the second was inserted before the end of the first.
C14_Witness ==
    /\ Len(changes.keys) = 3
    /\ \E r, q \in Recorded :
          /\ r /= q
          /\ SubOf(r).start_block = SubOf(q).start_block
          /\ SubOf(r).end_block > SubOf(q).end_block
          /\ r[1] = 1 /\ q[1] = 2
          /\ changes.keys[1] = SubOf(r).start_block
          /\ changes.values[1] = SubOf(r).price_per_block + SubOf(q).price_per_block
          /\ SubOf(r).price_per_block > 0 /\ SubOf(q).price_per_block > 0

\* C15: set_price_per_block(price) sets price_per_block and changes nothing
\* else; a recorded subscription never changes, a new one is recorded at the
\* price of the time of its purchase, and the fee collected for intervals of
\* positive length is the one at the recorded prices whatever the price is now.
C15_PriceFrame ==
    /\ [](PositiveLengths => C2_SettledFee)
    /\ [][/\ lastOp'.op = "set_price_per_block" =>
                /\ price_per_block' = lastOp'.arg
                /\ UNCHANGED <<collector, current_block, changes, subscriptions>>
          /\ \A r \in Recorded :
                /\ r[1] \in DOMAIN subscriptions'
                /\ r[2] <= Len(subscriptions'[r[1]])
                /\ subscriptions'[r[1]][r[2]] = subscriptions[r[1]][r[2]]
          /\ \A a \in DOMAIN subscriptions' :
                \A i \in 1..Len(subscriptions'[a]) :
                    (a \notin DOMAIN subscriptions \/ i > Len(subscriptions[a]))
                        => subscriptions'[a][i].price_per_block = price_per_block]_vars

\* A subscription bought at a price that is no longer the current one has
\* ended and been collected, fee taken.
C15_Witness ==
    /\ lastOp.op = "collect"
    /\ PositiveLengths
    /\ collector.service_balance > 0
    /\ price_per_block > 0
    /\ \E r \in Recorded :
          /\ SubOf(r).price_per_block > 0
          /\ SubOf(r).price_per_block /= price_per_block
          /\ SubOf(r).end_block <= collector.last_collected_block
          /\ SubOf(r).end_block - SubOf(r).start_block > 1

\* The number of entries one collect() may fold under C16.  The source has no
\* such number (the TODO at the head of the loop of collect); any number below
\* the entries that the purchases of a run can have due at once stands for it.
EntriesPerCall == MaxSubs

\* C16: one collect() folds at most EntriesPerCall entries of the list.
C16_BoundedSweep ==
    [][lastOp'.op = "collect" =>
          Len(changes.keys) - Len(changes'.keys) <= EntriesPerCall]_vars

\* ---------------------------------------------------------------- fixed width
\* The arithmetic of top_off and collect on a signed type of fixed width
\* (i128 in the source, a narrower type here: IntMin..IntMax).  The source uses
\* the plain operators +, -, *: on overflow they panic in a build with overflow
\* checks and wrap in a build without; checked = TRUE is the former.
IntMax == 3
IntMin == 0 - IntMax - 1

\* The purchases recorded in a run of the fixed-width specification.
MaxWide == 1

Fits(x) == IntMin <= x /\ x <= IntMax

Wrap(x) == ((x - IntMin) % (2 * (IntMax + 1))) + IntMin

\* collect_one: the collector after the call, or at the panic that ended it.
collect_one_wide(c, block, checked) ==
    LET num_blocks == block - c.last_collected_block
        fee == Wrap(c.current_fee) * Wrap(num_blocks)
        balance == c.balance - Wrap(fee)
        service == c.service_balance + Wrap(fee)
    IN  IF checked /\ (~Fits(num_blocks) \/ ~Fits(fee))
        THEN [collector |-> c, ok |-> FALSE]
        ELSE IF checked /\ ~Fits(balance)
        THEN [collector |-> c, ok |-> FALSE]
        ELSE IF checked /\ ~Fits(service)
        THEN [collector |-> [c EXCEPT !.balance = balance], ok |-> FALSE]
        ELSE [collector |-> [c EXCEPT !.balance = Wrap(balance),
                                      !.service_balance = Wrap(service),
                                      !.last_collected_block = block],
              ok |-> TRUE]

\* The for loop of collect: the collector at the end of the loop or at the
\* panic that ended it.
RECURSIVE collect_loop_wide(_, _, _, _, _, _)
collect_loop_wide(c, sl, i, processed, cur, checked) ==
    IF i > Len(sl.keys) \/ sl.keys[i] > cur
    THEN [collector |-> c, changes_processed |-> processed, ok |-> TRUE]
    ELSE LET one == collect_one_wide(c, sl.keys[i], checked)
             fee == one.collector.current_fee + sl.values[i]
         IN  IF ~one.ok
             THEN [collector |-> one.collector, changes_processed |-> processed, ok |-> FALSE]
             ELSE IF checked /\ ~Fits(fee)
             THEN [collector |-> one.collector, changes_processed |-> processed, ok |-> FALSE]
             ELSE collect_loop_wide([one.collector EXCEPT !.current_fee = Wrap(fee)],
                                    sl, i + 1, processed + 1, cur, checked)

collect_wide(checked) ==
    LET swept == collect_loop_wide(collector, changes, 1, 0, current_block, checked)
        last == collect_one_wide(swept.collector, current_block, checked)
    IN  /\ collector' = IF swept.ok THEN last.collector ELSE swept.collector
        /\ changes' = IF swept.ok
                      THEN truncate_front(changes, swept.changes_processed)
                      ELSE changes
        /\ lastOp' = [op |-> "collect", arg |-> 0,
                      result |-> IF swept.ok /\ last.ok THEN "ok" ELSE "panic",
                      again |-> (lastOp.op = "collect")]
        /\ UNCHANGED <<price_per_block, current_block, subscriptions, paid, uncollected>>

\* *changes.get_or_insert_mut(k) += d: the list after the call or at the panic
\* of the addition (the entry is inserted by then).
add_at_wide(sl, k, d, checked) ==
    LET g == get_or_insert_mut(sl, k)
        v == g.list.values[g.i] + d
    IN  IF checked /\ ~Fits(v)
        THEN [list |-> g.list, ok |-> FALSE]
        ELSE [list |-> [keys |-> g.list.keys,
                        values |-> [g.list.values EXCEPT ![g.i] = Wrap(v)]],
              ok |-> TRUE]

top_off_wide(account, amount, checked) ==
    LET panic == [op |-> "top_off", arg |-> amount, result |-> "panic", again |-> FALSE]
        done == [op |-> "top_off", arg |-> amount, result |-> "ok", again |-> FALSE]
        unit == IF price_per_block = 0 THEN 0 ELSE RustDiv(amount, price_per_block)
        balance == collector.balance + amount
        subs == IF account \in DOMAIN subscriptions THEN subscriptions[account] ELSE <<>>
        entry(list) == [a \in (DOMAIN subscriptions) \cup {account} |->
                           IF a = account THEN list ELSE subscriptions[a]]
        next_block == current_block + 1
        start_block == Max(IF Len(subs) = 0 THEN 0 ELSE subs[Len(subs)].end_block,
                           Wrap(next_block))
        end_block == start_block + unit
        sub == [start_block |-> start_block, end_block |-> Wrap(end_block),
                price_per_block |-> price_per_block]
        first == add_at_wide(changes, start_block, price_per_block, checked)
        second == add_at_wide(first.list, Wrap(end_block), 0 - price_per_block, checked)
        bought == [a \in (DOMAIN paid) \cup {account} |->
                      IF a = account
                      THEN Append(IF a \in DOMAIN paid THEN paid[a] ELSE <<>>, amount)
                      ELSE paid[a]]
    IN  IF price_per_block = 0 \/ ~Fits(unit)
        THEN \* the division panics in every build (by zero, or IntMin / -1)
             /\ lastOp' = panic
             /\ UNCHANGED <<manager, paid, uncollected>>
        ELSE IF unit = 0
        THEN /\ lastOp' = [op |-> "top_off", arg |-> amount, result |-> "rejected",
                           again |-> FALSE]
             /\ top_off_return(account)
        ELSE IF checked /\ ~Fits(balance)
        THEN /\ lastOp' = panic
             /\ UNCHANGED <<manager, paid, uncollected>>
        ELSE IF checked /\ (~Fits(next_block) \/ ~Fits(end_block))
        THEN /\ lastOp' = panic
             /\ collector' = [collector EXCEPT !.balance = balance]
             /\ subscriptions' = entry(subs)
             /\ UNCHANGED <<price_per_block, current_block, changes, paid, uncollected>>
        ELSE /\ collector' = [collector EXCEPT !.balance = Wrap(balance)]
             /\ subscriptions' = entry(Append(subs, sub))
             /\ paid' = bought
             /\ changes' = IF first.ok THEN second.list ELSE first.list
             /\ lastOp' = IF first.ok /\ second.ok THEN done ELSE panic
             /\ UNCHANGED <<price_per_block, current_block, uncollected>>

\* Calls with the values at the ends of the type.
NextOverflow ==
    \/ \E block \in {1, IntMax} : set_current_block(block)
    \/ \E price \in {0 - 1, 0, 1} : set_price_per_block(price)
    \/ \E account \in {1}, amount \in {IntMin, 0 - 1, 1, IntMax},
          checked \in BOOLEAN :
          /\ Accepted(amount) => NumSubs < MaxWide
          /\ top_off_wide(account, amount, checked)
    \/ \E checked \in BOOLEAN : collect_wide(checked)

SpecOverflow == Init /\ [][NextOverflow]_vars

\* C17: a top_off or collect in which an arithmetic step overflows fails and
\* leaves the manager as it was; a call that completes has stored the exact
\* results (nothing has wrapped): the balance grew by the amount, the new
\* interval ends num_blocks after its start, the funds are conserved.
C17_CheckedArithmetic ==
    [][/\ lastOp'.result = "panic" => UNCHANGED manager
       /\ (lastOp'.op = "top_off" /\ lastOp'.result = "ok") =>
             /\ collector'.balance = collector.balance + lastOp'.arg
             /\ \E a \in DOMAIN subscriptions' :
                   LET new == subscriptions'[a][Len(subscriptions'[a])]
                   IN  new.end_block
                          = new.start_block + RustDiv(lastOp'.arg, price_per_block)
       /\ (lastOp'.op = "collect" /\ lastOp'.result = "ok") =>
             Funds' = Funds]_vars

\* The collector of a collect() called in this state after the first j entries
\* of the list have been folded.
Folded(j) ==
    collect_loop(collector,
                 [keys |-> SubSeq(changes.keys, 1, j),
                  values |-> SubSeq(changes.values, 1, j)],
                 1, 0, current_block).collector

\* The fee collect_one(c, block) moves.
FeeOf(c, block) == c.current_fee * (block - c.last_collected_block)

\* C18: with every purchase made at price >= 1 and amount >= price, a collect()
\* folds the due entries in strictly increasing block order; for each entry it
\* collects up to the entry's block at the fee in force and only then adds the
\* delta, and it ends with one collection up to current_block; every collection
\* is up to a block >= last_collected_block with a fee >= 0; service_balance
\* never decreases in any step.
C18_SettleThenApply ==
    [][PaidPurchases =>
          /\ collector'.service_balance >= collector.service_balance
          /\ lastOp'.op = "collect" =>
                LET n == Len(changes.keys) - Len(changes'.keys)
                IN  /\ \A j \in 1..n :
                          /\ changes.keys[j] <= current_block
                          /\ j > 1 => changes.keys[j - 1] < changes.keys[j]
                          /\ changes.keys[j] >= Folded(j - 1).last_collected_block
                          /\ FeeOf(Folded(j - 1), changes.keys[j]) >= 0
                          /\ Folded(j) =
                                [collect_one(Folded(j - 1), changes.keys[j])
                                    EXCEPT !.current_fee = @ + changes.values[j]]
                    /\ current_block >= Folded(n).last_collected_block
                    /\ FeeOf(Folded(n), current_block) >= 0
                    /\ collector' = collect_one(Folded(n), current_block)]_vars

\* A first collect() has folded the three entries of two purchases of different
\* accounts and moved a fee.
C18_Witness ==
    /\ PaidPurchases
    /\ lastOp.op = "collect" /\ ~lastOp.again
    /\ Cardinality(DOMAIN subscriptions) = 2
    /\ \E r, q \in Recorded : SubOf(r).end_block < SubOf(q).end_block
    /\ \A r \in Recorded : SubOf(r).end_block <= collector.last_collected_block
    /\ Len(changes.keys) = 0
    /\ collector.service_balance >= 3

\* The fee still to be collected for the recorded subscriptions: the blocks of
\* each from last_collected_block on.
Owed ==
    SumF([r \in Recorded |->
            IF SubOf(r).end_block > collector.last_collected_block
            THEN SubOf(r).price_per_block
                    * (SubOf(r).end_block
                          - Max(SubOf(r).start_block, collector.last_collected_block))
            ELSE 0])

\* C19: with every purchase made at price >= 1 and amount >= price, the balance
\* is never negative and is at least the fee still to be collected.
C19_Solvent ==
    PaidPurchases => (collector.balance >= 0 /\ collector.balance >= Owed)

\* Part of a subscription has been collected, part is still owed, and the
\* balance holds more than what is owed (an amount that was no multiple of the
\* price).
C19_Witness ==
    /\ PaidPurchases
    /\ Recorded /= {}
    /\ collector.service_balance > 0
    /\ Owed > 0
    /\ collector.balance > Owed

\* C20: the price of a new manager is 0; a top_off called while the price is 0
\* panics and leaves the manager as it was; no subscription of price 0 is
\* recorded.
C20_ZeroPrice ==
    /\ price_per_block = 0
    /\ [](\A r \in Recorded : SubOf(r).price_per_block /= 0)
    /\ [][(lastOp'.op = "top_off" /\ price_per_block = 0) =>
             (lastOp'.result = "panic" /\ UNCHANGED <<manager, paid>>)]_vars

\* A top_off has panicked at price 0 on a manager that holds funds and a
\* subscription.
C20_Witness ==
    /\ lastOp.op = "top_off" /\ lastOp.result = "panic"
    /\ price_per_block = 0
    /\ Recorded /= {}
    /\ collector.balance > 0

====
